---- MODULE Spec2Model ----
(***************************************************************************)
(* Model of the PDF export pipeline of MImages-pdf                         *)
(* (src/services/pdfService.ts): processImageForPDF, renderHtmlToImage and *)
(* generatePDF, driving a jsPDF document.                                  *)
(*                                                                         *)
(* Numbers that are fractional in the program (the image ratio, the fitted *)
(* size, the placement) are exact rationals <<num, den>> in lowest terms;   *)
(* <<1, 0>> is +Infinity, the quotient of a positive number by zero.       *)
(* A URL is the record of what it denotes: its source tag, the dimensions  *)
(* the decoder reports for it and its RGBA pixels; the empty string is     *)
(* EmptyUrl.  The JPEG re-encoding of canvas.toDataURL is lossless here.   *)
(***************************************************************************)
EXTENDS Integers, Sequences, FiniteSets, TLC

\* ------------------------------------------------------------------ bounds
MaxPages == 3

MaxPasses == 3

\* ------------------------------------------------------- program constants
margin == 10

threshold == 180

ContainerWidth == 794

ContainerMinHeight == 1123

RenderScale == 2

\* ----------------------------------------------------------- rationals
RECURSIVE GCD(_, _)
GCD(a, b) == IF b = 0 THEN a ELSE GCD(b, a % b)

Abs(n) == IF n < 0 THEN -n ELSE n

Rat(n, d) ==
  LET g == GCD(Abs(n), Abs(d))
      s == IF d < 0 THEN -1 ELSE 1
  IN  <<(s * n) \div g, (s * d) \div g>>

RInt(n) == <<n, 1>>

RMul(a, b) == LET p == Rat(a[1], b[2])
                  q == Rat(b[1], a[2])
              IN  Rat(p[1] * q[1], p[2] * q[2])

RDiv(a, b) == RMul(a, Rat(b[2], b[1]))

RSub(a, b) == LET g == GCD(a[2], b[2])
              IN  Rat(a[1] * (b[2] \div g) - b[1] * (a[2] \div g),
                      a[2] * (b[2] \div g))

RAdd(a, b) == RSub(a, <<-b[1], b[2]>>)

RLe(a, b) == RSub(a, b)[1] <= 0

RLt(a, b) == RSub(a, b)[1] < 0

RHalf(a) == Rat(a[1], 2 * a[2])

\* ------------------------------------------------------------ pixel map
\* Byte stored into a Uint8ClampedArray from the exact quotient n/4:
\* round to nearest, ties to even, clamped to 0..255.
ToUint8Clamp4(n) ==
  LET f == n \div 4
      m == n % 4
      v == IF m = 3 \/ (m = 2 /\ f % 2 = 1) THEN f + 1 ELSE f
  IN  IF v > 255 THEN 255 ELSE IF v < 0 THEN 0 ELSE v

\* luminance > threshold, as the double-precision sum decides it: the exact
\* comparison, plus the two byte triples whose exact luminance is 180 and
\* whose rounded sum is 180.00000000000003.
LuminanceAbove(r, g, b) ==
  \/ 299 * r + 587 * g + 114 * b > threshold * 1000
  \/ <<r, g, b>> \in {<<123, 237, 36>>, <<220, 194, 3>>}

\* darkening that truncates instead of rounding
DarkenTruncate(c) == (3 * c) \div 4

\* contrastFactor = 0.75 = 3/4
Darken(c) == ToUint8Clamp4(3 * c)

\* the transparency variant: a background pixel gets alpha 0
CleanPixelTransparent(p) ==
  IF LuminanceAbove(p[1], p[2], p[3])
  THEN <<255, 255, 255, 0>>
  ELSE <<Darken(p[1]), Darken(p[2]), Darken(p[3]), p[4]>>

CleanPixel(p) ==
  IF LuminanceAbove(p[1], p[2], p[3])
  THEN <<255, 255, 255, p[4]>>
  ELSE <<Darken(p[1]), Darken(p[2]), Darken(p[3]), p[4]>>

CleanData(data) == [k \in 1..Len(data) |-> CleanPixel(data[k])]

\* ------------------------------------------------------------------ URLs
EmptyUrl == [src |-> "", w |-> 0, h |-> 0, data |-> <<>>]

ImgA == [src |-> "blob:a", w |-> 1, h |-> 1, data |-> << <<200, 200, 200, 255>> >>]

ImgB == [src |-> "blob:b", w |-> 2, h |-> 1,
         data |-> << <<100, 100, 100, 255>>, <<255, 255, 255, 255>> >>]

ImgC == [src |-> "blob:c", w |-> 1, h |-> 2,
         data |-> << <<180, 180, 180, 128>>, <<3, 2, 1, 255>> >>]

\* an image file whose header declares height 0: the browser cannot decode
\* it, the document's decoder reports the declared dimensions
ImgZ == [src |-> "blob:z", w |-> 1, h |-> 0, data |-> <<>>]

ImageUrls == {ImgA, ImgB, ImgC, ImgZ, EmptyUrl}

Htmls == {"<p>short</p>", "<p>long</p>"}

\* rendered height in CSS pixels of the container for an HTML block
\* (minHeight 1123, grows with content)
LayoutHeights == {ContainerMinHeight, 2800}

PageSet == [type : {"IMAGE"}, content : ImageUrls]
             \cup [type : {"TEXT"}, content : Htmls]

RECURSIVE SeqsUpTo(_, _)
SeqsUpTo(S, n) ==
  IF n = 0 THEN {<<>>}
  ELSE LET prev == SeqsUpTo(S, n - 1)
       IN  prev \cup {Append(s, e) : s \in {t \in prev : Len(t) = n - 1}, e \in S}

\* jsPDF page sizes (width, height) in document units
PageSizes == {<<210, 297>>, <<50, 30>>}

OptionSet == [includePageNumbers : BOOLEAN, enableScanMode : BOOLEAN]

\* ------------------------------------------------------------- fit step
\* doc.getImageProperties(url): the dimensions the decoder reports
GetImageProperties(url) == [width |-> url.w, height |-> url.h]

ImgRatio(props) == Rat(props.width, props.height)

\* a fit that fills the writable area and ignores the image ratio
FitSizeStretch(imgRatio, maxW, maxH) == [width |-> maxW, height |-> maxH]

\* the fit without the second comparison of either branch
FitSizeNoRecheck(imgRatio, maxW, maxH) ==
  IF RLt(RInt(1), imgRatio)
  THEN [width |-> maxW, height |-> RDiv(maxW, imgRatio)]
  ELSE [width |-> RMul(maxH, imgRatio), height |-> maxH]

\* finalWidth, finalHeight of the two-branch fit
FitSize(imgRatio, maxW, maxH) ==
  IF RLt(RInt(1), imgRatio)
  THEN LET fh == RDiv(maxW, imgRatio)
       IN  IF RLt(maxH, fh)
           THEN [width |-> RMul(maxH, imgRatio), height |-> maxH]
           ELSE [width |-> maxW, height |-> fh]
  ELSE LET fw == RMul(maxH, imgRatio)
       IN  IF RLt(maxW, fw)
           THEN [width |-> maxW, height |-> RDiv(maxW, imgRatio)]
           ELSE [width |-> fw, height |-> maxH]

\* the box put at the margin instead of in the middle
CentreAtMargin(pageExtent, finalExtent) == RInt(margin)

Centre(pageExtent, finalExtent) == RHalf(RSub(pageExtent, finalExtent))

Placement(url, pw, ph) ==
  LET maxW == RInt(pw - margin * 2)
      maxH == RInt(ph - margin * 2)
      size == FitSize(ImgRatio(GetImageProperties(url)), maxW, maxH)
  IN  [x |-> Centre(RInt(pw), size.width),
       y |-> Centre(RInt(ph), size.height),
       width |-> size.width,
       height |-> size.height]

\* ------------------------------------------------------- encoder call log
NoText == [n |-> 0, of |-> 0]

NoBox == [x |-> RInt(0), y |-> RInt(0), width |-> RInt(0), height |-> RInt(0)]

Call(op, idx, url, box, text) ==
  [op |-> op, page |-> idx, url |-> url, box |-> box, text |-> text]

AddPageCall(idx) == Call("addPage", idx, EmptyUrl, NoBox, NoText)

\* addImage given a variable that holds no image
AddImageCallNoUrl(idx, url, box) == Call("addImage", idx, EmptyUrl, box, NoText)

AddImageCall(idx, url, box) == Call("addImage", idx, url, box, NoText)

\* the label built from the 0-based index
PageNumTextZeroBased(idx, n) == [n |-> idx, of |-> n]

\* `Page ${i + 1} of ${pages.length}`
PageNumText(idx, n) == [n |-> idx + 1, of |-> n]

TextCall(idx, n) == Call("text", idx, EmptyUrl, NoBox, PageNumText(idx, n))

SaveCall(idx) == Call("save", idx, EmptyUrl, NoBox, NoText)

\* canvas.toDataURL of the cleaned canvas
CleanedUrl(url) ==
  [src |-> "data:image/jpeg", w |-> url.w, h |-> url.h, data |-> CleanData(url.data)]

\* canvas.toDataURL of the html2canvas capture
RenderedUrl(html, layoutH) ==
  [src |-> "data:image/jpeg", w |-> ContainerWidth * RenderScale,
   h |-> layoutH * RenderScale, data |-> <<>>]

\* `!processedImageUrl`
IsEmpty(url) == url.src = ""

\* ------------------------------------------------------------------ state
VARIABLES
  pages,              \* generatePDF argument: the EditorPage list
  options,            \* generatePDF argument: GeneratePDFOptions
  pageWidth,          \* doc.internal.pageSize.getWidth()
  pageHeight,         \* doc.internal.pageSize.getHeight()
  i,                  \* loop index of generatePDF
  pc,                 \* where the async generatePDF stands
  processedImageUrl,  \* local of the loop body
  doc,                \* the calls received by the jsPDF document, in order
  body,               \* number of containers attached to document.body
  loads,              \* number of Image() loads started
  events,             \* completions delivered by the browser, in order
  cleanHist,          \* a raster and its successive images under the pixel map
  rb,                 \* a call of removeBackground (imageProcessor.ts)
  ed,                 \* the state of a mounted PreviewEditor and of its parent's images
  crop,               \* the state of a mounted ImageCropper
  modal,              \* the state of a mounted DownloadModal
  app                 \* the state of App and its timers

\* the state outside generatePDF and the pixel map
ui == <<rb, ed, crop, modal, app>>

\* the state of generatePDF and the pixel map
pdf == <<pages, options, pageWidth, pageHeight, i, pc, processedImageUrl,
         doc, body, loads, events, cleanHist>>

vars == <<pages, options, pageWidth, pageHeight, i, pc, processedImageUrl,
          doc, body, loads, events, cleanHist, rb, ed, crop, modal, app>>

\* a component that is not mounted, a function that is not called
Absent == [mounted |-> FALSE]

UiAbsent == rb = Absent /\ ed = Absent /\ crop = Absent /\ modal = Absent /\ app = Absent

inputs == <<pages, options, pageWidth, pageHeight>>

Init ==
  /\ pages \in SeqsUpTo(PageSet, MaxPages)
  /\ options \in OptionSet
  /\ \E sz \in PageSizes : pageWidth = sz[1] /\ pageHeight = sz[2]
  /\ i = 0
  /\ pc = "loop"
  /\ processedImageUrl = EmptyUrl
  /\ doc = <<>>
  /\ body = 0
  /\ loads = 0
  /\ events = <<>>
  /\ cleanHist = <<>>
  /\ UiAbsent

\* pages[i] of the program (0-based)
PageAt(idx) == pages[idx + 1]

\* a cleaner that ignores the flag and always loads the image
NeverResolvesImmediately(enableScanMode) == FALSE

\* processImageForPDF line 11: the promise is already resolved with url
ResolvesImmediately(enableScanMode) == ~enableScanMode

\* addPage on every iteration, the first included
NeedsAddPageAlways(idx) == idx >= 0

\* an off-by-one guard: `if (i > 1) doc.addPage()`
NeedsAddPageFromThird(idx) == idx > 1

\* `if (i > 0) doc.addPage()`
NeedsAddPage(idx) == idx > 0

\* a document created anew inside the loop: earlier calls are lost
AddCallsFresh(d, calls) == calls

\* a document that puts each new call in front of the earlier ones
AddCallsInFront(d, calls) == calls \o d

\* the document keeps the calls it receives in the order they are made
AddCalls(d, calls) == d \o calls

Event(ev, idx) == [ev |-> ev, page |-> idx]

\* the loop head without the awaits: the load or render is started and the
\* loop goes on to the next page at once
IterBeginNoAwait ==
  /\ pc = "loop"
  /\ i < Len(pages)
  /\ doc' = IF NeedsAddPage(i) THEN AddCalls(doc, <<AddPageCall(i)>>) ELSE doc
  /\ IF PageAt(i).type = "IMAGE"
     THEN /\ loads' = IF options.enableScanMode THEN loads + 1 ELSE loads
          /\ UNCHANGED body
     ELSE /\ body' = body + 1
          /\ UNCHANGED loads
  /\ processedImageUrl' = EmptyUrl
  /\ i' = i + 1
  /\ pc' = "loop"
  /\ UNCHANGED <<ui, inputs, events, cleanHist>>

\* Loop head up to the first await of the iteration (lines 102-113).
IterBegin ==
  /\ pc = "loop"
  /\ i < Len(pages)
  /\ doc' = IF NeedsAddPage(i) THEN AddCalls(doc, <<AddPageCall(i)>>) ELSE doc
  /\ IF PageAt(i).type = "IMAGE"
     THEN IF ResolvesImmediately(options.enableScanMode)
          THEN /\ processedImageUrl' = PageAt(i).content
               /\ pc' = "resume"
               /\ UNCHANGED <<body, loads>>
          ELSE /\ processedImageUrl' = EmptyUrl
               /\ loads' = loads + 1
               /\ pc' = "awaitImage"
               /\ UNCHANGED body
     ELSE /\ processedImageUrl' = EmptyUrl
          /\ body' = body + 1
          /\ pc' = "awaitRender"
          /\ UNCHANGED loads
  /\ UNCHANGED <<ui, inputs, i, events, cleanHist>>

\* the browser can decode the image behind the URL and fire load
Loadable(url) == ~IsEmpty(url) /\ url.w > 0 /\ url.h > 0

\* img.onload (lines 16-53); getContext('2d') may return null.
ImgOnload ==
  /\ pc = "awaitImage"
  /\ Loadable(PageAt(i).content)
  /\ \E ctx \in BOOLEAN :
       processedImageUrl' = IF ctx THEN CleanedUrl(PageAt(i).content)
                            ELSE PageAt(i).content
  /\ pc' = "resume"
  /\ events' = Append(events, Event("onload", i))
  /\ UNCHANGED <<ui, inputs, i, doc, body, loads, cleanHist>>

\* an error handler that resolves with nothing
OnErrorResolveEmpty(url) == EmptyUrl

\* `img.onerror = () => resolve(url)`
OnErrorResolve(url) == url

\* an image with no error handler: the promise stays pending for ever
ImgOnerrorUnhandled ==
  /\ pc = "awaitImage"
  /\ pc' = "pending"
  /\ events' = Append(events, Event("onerror", i))
  /\ UNCHANGED <<ui, inputs, i, processedImageUrl, doc, body, loads, cleanHist>>

\* img.onerror (line 54)
ImgOnerror ==
  /\ pc = "awaitImage"
  /\ processedImageUrl' = OnErrorResolve(PageAt(i).content)
  /\ pc' = "resume"
  /\ events' = Append(events, Event("onerror", i))
  /\ UNCHANGED <<ui, inputs, i, doc, body, loads, cleanHist>>

\* removeChild after the await instead of in a finally block
DetachContainerOnSuccess(attached, ok) == IF ok THEN attached - 1 ELSE attached

\* the finally block of renderHtmlToImage (lines 82-84)
DetachContainer(attached, ok) == attached - 1

\* html2canvas resolves (lines 76-84)
RenderDone ==
  /\ pc = "awaitRender"
  /\ \E lh \in LayoutHeights :
       processedImageUrl' = RenderedUrl(PageAt(i).content, lh)
  /\ body' = DetachContainer(body, TRUE)
  /\ pc' = "resume"
  /\ events' = Append(events, Event("rendered", i))
  /\ UNCHANGED <<ui, inputs, i, doc, loads, cleanHist>>

\* a caller that catches the rejection and goes on with no image
RenderFailSwallowed ==
  /\ pc = "awaitRender"
  /\ body' = DetachContainer(body, FALSE)
  /\ processedImageUrl' = EmptyUrl
  /\ pc' = "resume"
  /\ events' = Append(events, Event("renderFailed", i))
  /\ UNCHANGED <<ui, inputs, i, doc, loads, cleanHist>>

\* html2canvas rejects: the finally block runs and generatePDF rejects
RenderFail ==
  /\ pc = "awaitRender"
  /\ body' = DetachContainer(body, FALSE)
  /\ pc' = "failed"
  /\ events' = Append(events, Event("renderFailed", i))
  /\ UNCHANGED <<ui, inputs, i, processedImageUrl, doc, loads, cleanHist>>

\* a raster taller than one page cut into page-high pieces, one addImage each
EmitCallsSliced(idx, url, pw, ph, includePageNumbers, n) ==
  LET chunkH == (url.w * (ph - margin * 2)) \div (pw - margin * 2)
      cnt == IF url.h > chunkH + 10 THEN (url.h + chunkH - 1) \div chunkH ELSE 1
      piece == IF cnt = 1 THEN url ELSE [url EXCEPT !.h = chunkH]
  IN  [c \in 1..cnt |-> AddImageCall(idx, piece, Placement(piece, pw, ph))]

\* addImage placed inside the page-number block
EmitCallsImageInFooterBlock(idx, url, pw, ph, includePageNumbers, n) ==
  IF includePageNumbers
  THEN <<AddImageCall(idx, url, Placement(url, pw, ph)), TextCall(idx, n)>>
  ELSE <<>>

\* the calls of lines 142-150 for the page at index idx
EmitCalls(idx, url, pw, ph, includePageNumbers, n) ==
  <<AddImageCall(idx, url, Placement(url, pw, ph))>>
    \o (IF includePageNumbers THEN <<TextCall(idx, n)>> ELSE <<>>)

\* After the await: lines 115-151.
Resume ==
  /\ pc = "resume"
  /\ doc' = IF IsEmpty(processedImageUrl)
            THEN doc
            ELSE AddCalls(doc, EmitCalls(i, processedImageUrl, pageWidth, pageHeight,
                                         options.includePageNumbers, Len(pages)))
  /\ i' = i + 1
  /\ pc' = "loop"
  /\ UNCHANGED <<ui, inputs, processedImageUrl, body, loads, events, cleanHist>>

\* loop exit and doc.save (line 153)
Finish ==
  /\ pc = "loop"
  /\ i >= Len(pages)
  /\ doc' = AddCalls(doc, <<SaveCall(i)>>)
  /\ pc' = "done"
  /\ UNCHANGED <<ui, inputs, i, processedImageUrl, body, loads, events, cleanHist>>

Next ==
  \/ IterBegin
  \/ ImgOnload
  \/ ImgOnerror
  \/ RenderDone
  \/ RenderFail
  \/ Resume
  \/ Finish

Spec == Init /\ [][Next]_vars

\* ------------------------------------------ the run under fair scheduling
LivePageSet ==
  {[type |-> "IMAGE", content |-> ImgA], [type |-> "IMAGE", content |-> ImgZ],
   [type |-> "IMAGE", content |-> EmptyUrl], [type |-> "TEXT", content |-> "<p>short</p>"]}

InitLive ==
  /\ pages \in SeqsUpTo(LivePageSet, MaxPages)
  /\ options \in OptionSet
  /\ pageWidth = 210
  /\ pageHeight = 297
  /\ i = 0
  /\ pc = "loop"
  /\ processedImageUrl = EmptyUrl
  /\ doc = <<>>
  /\ body = 0
  /\ loads = 0
  /\ events = <<>>
  /\ cleanHist = <<>>
  /\ UiAbsent

\* The continuation after the await, seen on pc alone.  Resume is enabled
\* exactly when pc = "resume" (its other conjuncts are assignments), and in a
\* behaviour of [][Next]_vars the only step that takes pc from "resume" to
\* "loop" is a Resume step; so weak fairness of this action on pc is weak
\* fairness of Resume, without evaluating the placement under ENABLED.
ResumeTaken == pc = "resume" /\ pc' = "loop"

\* The event loop runs every continuation of generatePDF that is ready; the
\* browser fires load or error for every image whose src was set, and
\* html2canvas settles its promise.
Fairness ==
  /\ WF_vars(IterBegin)
  /\ WF_pc(ResumeTaken)
  /\ WF_vars(Finish)
  /\ WF_vars(ImgOnload \/ ImgOnerror)
  /\ WF_vars(RenderDone \/ RenderFail)

SpecLive == InitLive /\ [][Next]_vars /\ Fairness

\* -------------------------------------------- the pixel map on its own
ByteSamples == {0, 1, 2, 3, 4, 100, 180, 181, 240, 255}

AlphaSamples == {0, 255}

PixelSamples ==
  {<<r, g, b, a>> : r \in ByteSamples, g \in ByteSamples, b \in ByteSamples,
                    a \in AlphaSamples}
    \cup {<<123, 237, 36, 255>>, <<220, 194, 3, 255>>, <<179, 180, 181, 255>>}

RasterSamples ==
  {<<p>> : p \in PixelSamples}
    \cup {<<p, q>> : p \in {ImgB.data[1], ImgC.data[2]},
                     q \in {ImgA.data[1], ImgC.data[1]}}

InitClean ==
  /\ cleanHist \in {<<r>> : r \in RasterSamples}
  /\ pages = <<>>
  /\ options = [includePageNumbers |-> FALSE, enableScanMode |-> TRUE]
  /\ pageWidth = 210
  /\ pageHeight = 297
  /\ i = 0
  /\ pc = "idle"
  /\ processedImageUrl = EmptyUrl
  /\ doc = <<>>
  /\ body = 0
  /\ loads = 0
  /\ events = <<>>
  /\ UiAbsent

\* one more run of the loop of lines 32-49 over the data of the last raster
CleanPass ==
  /\ pc = "idle"
  /\ Len(cleanHist) <= MaxPasses
  /\ cleanHist' = Append(cleanHist, CleanData(cleanHist[Len(cleanHist)]))
  /\ UNCHANGED <<ui, inputs, i, pc, processedImageUrl, doc, body, loads, events>>

NextClean == CleanPass

SpecClean == InitClean /\ [][NextClean]_vars

\* ======================================================= properties
CallIdx(op) == {k \in 1..Len(doc) : doc[k].op = op}

NumCalls(op) == Cardinality(CallIdx(op))

\* a page whose processing gives a non-empty URL
YieldsRaster(page) == page.type = "TEXT" \/ ~IsEmpty(page.content)

MaxWOf == RInt(pageWidth - 2 * margin)

MaxHOf == RInt(pageHeight - 2 * margin)

\* C1: for every raster of positive width and height and every page geometry
\* with positive writable area, the box handed to addImage satisfies
\* width <= maxW, height <= maxH, x >= margin, y >= margin,
\* x + width <= pageWidth - margin and y + height <= pageHeight - margin.
C1_FitInsideWritableArea ==
  \A k \in CallIdx("addImage") :
    (/\ doc[k].url.w > 0
     /\ doc[k].url.h > 0
     /\ pageWidth > 2 * margin
     /\ pageHeight > 2 * margin)
    => LET b == doc[k].box
       IN  /\ RLe(b.width, MaxWOf)
           /\ RLe(b.height, MaxHOf)
           /\ RLe(RInt(margin), b.x)
           /\ RLe(RInt(margin), b.y)
           /\ RLe(RAdd(b.x, b.width), RInt(pageWidth - margin))
           /\ RLe(RAdd(b.y, b.height), RInt(pageHeight - margin))

\* a completed run that drew a wide raster whose first try overflowed the
\* height and was re-derived from maxH
C1_Witness ==
  /\ \E k \in CallIdx("addImage") :
       /\ doc[k].url.w > doc[k].url.h
       /\ doc[k].box.height = MaxHOf
       /\ RLt(doc[k].box.width, MaxWOf)
  /\ pc = "done"

C3_RecordsInInputOrder ==
  \A a, b \in CallIdx("addImage") : a < b => doc[a].page < doc[b].page

C3_Witness ==
  /\ pc = "done"
  /\ NumCalls("addImage") >= 3

\* number of addImage records among the first k calls
RecordRank(k) == Cardinality({j \in CallIdx("addImage") : j <= k})

\* iterations of the loop entered so far
IterationsBegun == IF pc \in {"loop", "done"} THEN i ELSE i + 1

EventIdx(ev) == {e \in 1..Len(events) : events[e].ev = ev}

\* C6: save is called at most once and only after every input page was
\* processed without a fatal error; once a TEXT page's rendering has failed
\* the run is aborted: no further call reaches the document, no later page
\* is processed and save is never called.
C6_SaveOnceOnlyOnSuccess ==
  /\ [](/\ NumCalls("save") <= 1
        /\ NumCalls("save") = 1
             => /\ pc = "done"
                /\ i = Len(pages)
                /\ doc[Len(doc)].op = "save"
                /\ EventIdx("renderFailed") = {}
        /\ EventIdx("renderFailed") # {}
             => /\ pc = "failed"
                /\ NumCalls("save") = 0)
  /\ [][EventIdx("renderFailed") # {} => (doc' = doc /\ i' = i /\ pc' = pc)]_vars

\* a TEXT page failed after an earlier page was drawn and with pages left
C6_Witness ==
  /\ pc = "failed"
  /\ i >= 1
  /\ i + 1 < Len(pages)
  /\ NumCalls("addImage") >= 1
  /\ NumCalls("save") = 0

\* C7: the container attached by renderHtmlToImage is attached only while
\* html2canvas is pending; after renderHtmlToImage has returned or thrown
\* nothing is left attached to document.body.
C7_ContainerDetached ==
  /\ body \in {0, 1}
  /\ body = 1 <=> pc = "awaitRender"

\* renderHtmlToImage threw, and renderHtmlToImage returned
C7_Witness ==
  /\ pc = "failed"
  /\ body = 0
  /\ EventIdx("rendered") # {}
  /\ EventIdx("renderFailed") # {}

C9_NoScanModeIdentity ==
  ~options.enableScanMode =>
    /\ loads = 0
    /\ EventIdx("onload") \cup EventIdx("onerror") = {}
    /\ (pc = "resume" /\ PageAt(i).type = "IMAGE")
         => processedImageUrl = PageAt(i).content
    /\ \A k \in CallIdx("addImage") :
         pages[doc[k].page + 1].type = "IMAGE"
           => doc[k].url = pages[doc[k].page + 1].content

C9_Witness ==
  /\ ~options.enableScanMode
  /\ pc = "done"
  /\ \E k \in CallIdx("addImage") :
       /\ pages[doc[k].page + 1].type = "IMAGE"
       /\ doc[k].url = ImgB

\* C10 (as stated): applying the pixel map twice gives the same raster as
\* applying it once.
C10_CleanIdempotent ==
  Len(cleanHist) >= 3 => cleanHist[3] = cleanHist[2]

\* C10 (amended): a further application of the pixel map leaves a pixel
\* classified as background white, and darkens a pixel classified as ink
\* again: each of R, G, B is at most its value after the previous
\* application, equal only when that value is 0, 1 or 2; alpha is kept.
C10_SecondPassDarkensInk ==
  \A n \in 2..(Len(cleanHist) - 1) :
    \A k \in 1..Len(cleanHist[n]) :
      LET p == cleanHist[n - 1][k]
          q == cleanHist[n][k]
          t == cleanHist[n + 1][k]
      IN  /\ t[4] = q[4]
          /\ IF LuminanceAbove(p[1], p[2], p[3])
             THEN t = q
             ELSE \A ch \in 1..3 : /\ t[ch] <= q[ch]
                                   /\ t[ch] = q[ch] <=> q[ch] <= 2

\* an ink pixel that the second application changed
C10_Witness ==
  /\ Len(cleanHist) >= 3
  /\ \E k \in 1..Len(cleanHist[1]) :
       /\ ~LuminanceAbove(cleanHist[1][k][1], cleanHist[1][k][2], cleanHist[1][k][3])
       /\ cleanHist[3][k] # cleanHist[2][k]

IsWhite(p) == p[1] = 255 /\ p[2] = 255 /\ p[3] = 255

\* C11: a raster whose pixels are all pure white (R = G = B = 255) is left
\* unchanged by the pixel map, every byte of every pixel included.
C11_WhiteRasterUnchanged ==
  \A n \in 1..(Len(cleanHist) - 1) :
    (\A k \in 1..Len(cleanHist[n]) : IsWhite(cleanHist[n][k]))
      => cleanHist[n + 1] = cleanHist[n]

\* an opaque all-white raster that went through the map
C11_Witness ==
  /\ Len(cleanHist) >= 2
  /\ cleanHist[1] = << <<255, 255, 255, 255>> >>
  /\ cleanHist[2] = cleanHist[1]

\* C12 (as stated): with L = 0.299R + 0.587G + 0.114B, a pixel with L > 180
\* becomes white; a pixel with L <= 180, L = 180 included, has each of R, G,
\* B replaced by the byte nearest to 0.75 times its value and is not turned
\* white; alpha and the number of pixels are unchanged.
C12_ThresholdClassification ==
  \A n \in 1..(Len(cleanHist) - 1) :
    /\ Len(cleanHist[n + 1]) = Len(cleanHist[n])
    /\ \A k \in 1..Len(cleanHist[n]) :
         LET p == cleanHist[n][k]
             q == cleanHist[n + 1][k]
             L1000 == 299 * p[1] + 587 * p[2] + 114 * p[3]
         IN  /\ q[4] = p[4]
             /\ IF L1000 > 180 * 1000
                THEN IsWhite(q)
                ELSE /\ ~IsWhite(q)
                     /\ \A ch \in 1..3 : /\ 4 * q[ch] - 3 * p[ch] <= 2
                                         /\ 3 * p[ch] - 4 * q[ch] <= 2

\* floor(W / targetAspect) for the writable aspect maxW / maxH
ChunkH(w) == (w * (pageHeight - 2 * margin)) \div (pageWidth - 2 * margin)

\* a raster taller than one page at the writable aspect, beyond the 10 px
\* tolerance
Tall(url) == url.h > ChunkH(url.w) + 10

\* ceil(H / floor(W / targetAspect)) for a tall raster, 1 otherwise
SliceCount(url) ==
  IF Tall(url) THEN (url.h + ChunkH(url.w) - 1) \div ChunkH(url.w) ELSE 1

\* the addImage records that a step appends to the document
NewRecords == {k \in (Len(doc) + 1)..Len(doc') : doc'[k].op = "addImage"}

C14_ShortRasterUnchanged ==
  [][(pc = "resume" /\ ~IsEmpty(processedImageUrl) /\ ~Tall(processedImageUrl))
       => /\ Cardinality(NewRecords) = 1
          /\ \A k \in NewRecords : /\ doc'[k].url = processedImageUrl
                                   /\ doc'[k].page = i]_vars

\* a completed run that drew a short image and a short rendered block
C14_Witness ==
  /\ pc = "done"
  /\ \E k \in CallIdx("addImage") : doc[k].url = ImgC
  /\ \E k \in CallIdx("addImage") :
       /\ doc[k].url.h = ContainerMinHeight * RenderScale
       /\ ~Tall(doc[k].url)

RECURSIVE SumTo(_, _)
SumTo(f, n) == IF n = 0 THEN 0 ELSE f[n] + SumTo(f, n - 1)

\* the slice count of each input page by the slicing rule: that of its
\* record's raster, 0 for a page that left no record
SliceCounts ==
  [p \in 1..Len(pages) |->
     LET recs == {k \in CallIdx("addImage") : doc[k].page = p - 1}
     IN  IF recs = {} THEN 0 ELSE SliceCount(doc[CHOOSE k \in recs : TRUE].url)]

\* records a page contributes: one if it yields a raster, else none
RecordCounts ==
  [p \in 1..Len(pages) |-> IF YieldsRaster(pages[p]) THEN 1 ELSE 0]

C16_FitKeepsRatioAndMaximizes ==
  \A k \in CallIdx("addImage") :
    (doc[k].url.w > 0 /\ doc[k].url.h > 0)
    => LET W == doc[k].url.w
           H == doc[k].url.h
           mw == pageWidth - 2 * margin
           mh == pageHeight - 2 * margin
           b == doc[k].box
           byWidth == [width |-> RInt(mw), height |-> Rat(mw * H, W)]
           byHeight == [width |-> Rat(mh * W, H), height |-> RInt(mh)]
           size == [width |-> b.width, height |-> b.height]
       IN  /\ RMul(b.width, RInt(H)) = RMul(b.height, RInt(W))
           /\ b.width = RInt(mw) \/ b.height = RInt(mh)
           /\ IF W > H
              THEN size = IF mw * H > mh * W THEN byHeight ELSE byWidth
              ELSE size = IF mh * W > mw * H THEN byWidth ELSE byHeight

\* a completed run that drew a wide raster at full width and a square one
\* whose width had to be re-derived
C16_Witness ==
  /\ pc = "done"
  /\ \E k \in CallIdx("addImage") :
       /\ doc[k].url.w > doc[k].url.h
       /\ doc[k].box.width = MaxWOf
       /\ RLt(doc[k].box.height, MaxHOf)
  /\ \E k \in CallIdx("addImage") :
       /\ doc[k].url.w = doc[k].url.h
       /\ doc[k].box.width = MaxWOf
       /\ doc[k].box.height = MaxWOf

\* C17: the fitted box is centred in the writable area:
\* x = margin + (maxW - width)/2 and y = margin + (maxH - height)/2, so the
\* gaps left and right are equal and the gaps above and below are equal.
C17_BoxCentred ==
  \A k \in CallIdx("addImage") :
    LET b == doc[k].box
    IN  /\ b.x = RAdd(RInt(margin), RHalf(RSub(MaxWOf, b.width)))
        /\ b.y = RAdd(RInt(margin), RHalf(RSub(MaxHOf, b.height)))
        /\ RSub(b.x, RInt(margin))
             = RSub(RInt(pageWidth - margin), RAdd(b.x, b.width))
        /\ RSub(b.y, RInt(margin))
             = RSub(RInt(pageHeight - margin), RAdd(b.y, b.height))

\* a box narrower than the writable area and one lower than it
C17_Witness ==
  /\ \E k \in CallIdx("addImage") : RLt(RInt(margin), doc[k].box.x)
  /\ \E k \in CallIdx("addImage") : RLt(RInt(margin), doc[k].box.y)

\* a raster with a zero dimension
ZeroDim(url) == ~IsEmpty(url) /\ (url.w = 0 \/ url.h = 0)

\* C18: a raster with zero height or zero width that reaches the fit step
\* is rejected: no record is emitted for its page, generation aborts and
\* save is not called.
C18_ZeroRasterRejected ==
  \A k \in 1..Len(pages) :
    (pages[k].type = "IMAGE" /\ ZeroDim(pages[k].content) /\ i >= k)
      => /\ pc = "failed"
         /\ NumCalls("save") = 0
         /\ \A j \in CallIdx("addImage") : doc[j].page # k - 1

\* loads and renders started and not yet completed
InFlight ==
  (loads - Cardinality(EventIdx("onload") \cup EventIdx("onerror"))) + body

\* C19: at most one page is in flight and at most one render surface is
\* attached at any moment, and a load or render is started only when nothing
\* is in flight and every earlier page has been emitted or skipped.
C19_OnePageAtATime ==
  /\ [](/\ InFlight \in {0, 1}
        /\ body \in {0, 1}
        /\ InFlight = 1 <=> pc \in {"awaitImage", "awaitRender"})
  /\ [][(loads' > loads \/ body' > body)
          => /\ InFlight = 0
             /\ \A p \in 1..i :
                  YieldsRaster(pages[p])
                    => \E k \in CallIdx("addImage") : doc[k].page = p - 1]_vars

\* a render pending for a later page after an earlier page was loaded and
\* drawn
C19_Witness ==
  /\ pc = "awaitRender"
  /\ i >= 1
  /\ body = 1
  /\ loads >= 1
  /\ \E k \in CallIdx("addImage") : doc[k].page = i - 1

\* C20: when every load and render completes, the run reaches its terminal
\* state: every pending image load resolves (by load or by error), every
\* pending render settles, and unless a render fails save is called after
\* the last page and the run ends.
C20_RunTerminates ==
  /\ (pc = "awaitImage") ~> (pc = "resume")
  /\ (pc = "awaitRender") ~> (pc \in {"resume", "failed"})
  /\ (pc = "loop" /\ i = Len(pages)) ~> (pc = "done")
  /\ <>(\/ pc = "failed"
        \/ /\ pc = "done"
           /\ i = Len(pages)
           /\ NumCalls("save") = 1
           /\ doc[Len(doc)].op = "save")

\* a completed run that went through a load, a failed load and a render
C20_Witness ==
  /\ pc = "done"
  /\ NumCalls("save") = 1
  /\ EventIdx("onload") # {}
  /\ EventIdx("onerror") # {}
  /\ EventIdx("rendered") # {}

\* ==================================================== removeBackground
\* the jsPDF run and the pixel-map passes are not part of the states below
PdfAbsent ==
  /\ pages = <<>>
  /\ options = [includePageNumbers |-> FALSE, enableScanMode |-> FALSE]
  /\ pageWidth = 210
  /\ pageHeight = 297
  /\ i = 0
  /\ pc = "idle"
  /\ processedImageUrl = EmptyUrl
  /\ doc = <<>>
  /\ body = 0
  /\ loads = 0
  /\ events = <<>>
  /\ cleanHist = <<>>

\* Byte stored into a Uint8ClampedArray from c * 0.8: 4c/5 is never half way
\* between two integers, so the nearest integer is (4c + 2) div 5.
Enhance(c) ==
  LET v == (4 * c + 2) \div 5
  IN  IF v > 255 THEN 255 ELSE v

\* loop body of imageProcessor.ts lines 27-47
RemovePixel(p) ==
  IF LuminanceAbove(p[1], p[2], p[3])
  THEN <<p[1], p[2], p[3], 0>>
  ELSE <<Enhance(p[1]), Enhance(p[2]), Enhance(p[3]), 255>>

RemoveData(data) == [k \in 1..Len(data) |-> RemovePixel(data[k])]

\* canvas.toDataURL('image/png') of the processed canvas
RemovedUrl(url) ==
  [src |-> "data:image/png", w |-> url.w, h |-> url.h, data |-> RemoveData(url.data)]

RbUrls ==
  {[src |-> "blob:r", w |-> Len(r), h |-> 1, data |-> r] : r \in RasterSamples}
    \cup {ImgA, ImgB, ImgC, ImgZ}

LoadError == "Error: Failed to load image for processing"

\* `new Promise(...)` with img.src set (lines 6-8, 54)
InitRb ==
  /\ PdfAbsent
  /\ ed = Absent /\ crop = Absent /\ modal = Absent /\ app = Absent
  /\ \E u \in RbUrls :
       rb = [mounted |-> TRUE, imageUrl |-> u, state |-> "pending",
             value |-> EmptyUrl, ev |-> "none"]

\* img.onload (lines 9-52)
RbOnload ==
  /\ rb.mounted /\ rb.state = "pending"
  /\ Loadable(rb.imageUrl)
  /\ \E ctx \in BOOLEAN :
       rb' = [rb EXCEPT !.state = "resolved", !.ev = "onload",
                        !.value = IF ctx THEN RemovedUrl(rb.imageUrl) ELSE rb.imageUrl]
  /\ UNCHANGED <<pdf, ed, crop, modal, app>>

\* an error handler copied from the scan-cleaning path: resolve(imageUrl)
RbOnerrorResolve ==
  /\ rb.mounted /\ rb.state = "pending"
  /\ rb' = [rb EXCEPT !.state = "resolved", !.ev = "onerror", !.value = rb.imageUrl]
  /\ UNCHANGED <<pdf, ed, crop, modal, app>>

\* img.onerror (line 53)
RbOnerror ==
  /\ rb.mounted /\ rb.state = "pending"
  /\ rb' = [rb EXCEPT !.state = "rejected", !.ev = "onerror", !.value = LoadError]
  /\ UNCHANGED <<pdf, ed, crop, modal, app>>

NextRb == RbOnload \/ RbOnerror

SpecRb == InitRb /\ [][NextRb]_vars

\* C21: when the source image cannot be loaded, removeBackground rejects
\* with an error; the promise is never resolved with the original image (or
\* with anything) after a load failure.
C21_LoadFailureRejects ==
  /\ rb.ev = "onerror" => rb.state = "rejected" /\ rb.value = LoadError
  /\ rb.state = "rejected" <=> rb.ev = "onerror"
  /\ rb.state = "resolved" => rb.ev = "onload" /\ rb.value \in {RemovedUrl(rb.imageUrl), rb.imageUrl}

C21_Witness == rb.ev = "onerror" /\ rb.state = "rejected" /\ rb.imageUrl = ImgB

\* =========================================== generatePDF: physical pages
\* the physical page of the document that the k-th call acts on: jsPDF
\* starts with one page and addPage makes the new page the current one
PhysPage(k) == 1 + Cardinality({j \in CallIdx("addPage") : j <= k})

\* number of pages of the document
PhysPages == 1 + NumCalls("addPage")

\* C22: for n >= 1 input pages addPage is called exactly n - 1 times,
\* exactly once at the start of the iteration of each page after the first,
\* skipped pages included; a completed run leaves n physical pages, the
\* calls of input page p land on physical page p + 1, and the physical page
\* of a skipped input page receives neither raster nor footer.
C22_OnePhysicalPagePerInputPage ==
  /\ \A p \in 0..(IterationsBegun - 1) :
       Cardinality({k \in CallIdx("addPage") : doc[k].page = p}) = IF p = 0 THEN 0 ELSE 1
  /\ \A k \in CallIdx("addPage") : doc[k].page < IterationsBegun
  /\ \A k \in CallIdx("addImage") \cup CallIdx("text") : PhysPage(k) = doc[k].page + 1
  /\ \A p \in 1..Len(pages) :
       ~YieldsRaster(pages[p])
         => \A k \in CallIdx("addImage") \cup CallIdx("text") : PhysPage(k) # p
  /\ (pc = "done" /\ Len(pages) >= 1)
       => /\ NumCalls("addPage") = Len(pages) - 1
          /\ PhysPages = Len(pages)

\* a completed run of three pages whose second page was skipped: three
\* physical pages, the second one blank
C22_Witness ==
  /\ pc = "done"
  /\ Len(pages) = 3
  /\ YieldsRaster(pages[1]) /\ ~YieldsRaster(pages[2]) /\ YieldsRaster(pages[3])
  /\ PhysPages = 3
  /\ \E k \in CallIdx("addImage") : PhysPage(k) = 3
  /\ \E k \in CallIdx("text") : PhysPage(k) = 3

\* ======================================================= PreviewEditor
\* number of images the parent hands to the editor
MaxImages == 2

\* number of text extractions started in one editing session
MaxExtractions == 1

\* ImageFile of the parent: id and previewUrl
ImageFileOf(id) == [id |-> id, previewUrl |-> <<"blob", id>>]

\* images.map(img => ({id, type: 'IMAGE', content: img.previewUrl, ...}))
\* (lines 53-58); parentId 0 stands for an absent parentId
InitialPages(images) ==
  [k \in 1..Len(images) |->
     [id |-> images[k].id, type |-> "IMAGE", content |-> images[k].previewUrl,
      parentId |-> 0]]

\* the effect of lines 61-70: IMAGE pages take the previewUrl of the image
\* with their id, every other page is kept as it is
SyncPages(pgs, images) ==
  [k \in 1..Len(pgs) |->
     IF pgs[k].type = "IMAGE" /\ \E j \in 1..Len(images) : images[j].id = pgs[k].id
     THEN [pgs[k] EXCEPT !.content =
             images[CHOOSE j \in 1..Len(images) :
                      /\ images[j].id = pgs[k].id
                      /\ \A j2 \in 1..(j - 1) : images[j2].id # pgs[k].id].previewUrl]
     ELSE pgs[k]]

\* s.filter((_, idx) => idx !== at), 0-based
RemoveAt(s, at) ==
  [k \in 1..(Len(s) - 1) |-> IF k <= at THEN s[k] ELSE s[k + 1]]

\* s.filter(x => x.id !== id)
RECURSIVE RemoveId(_, _)
RemoveId(s, id) ==
  IF s = <<>> THEN <<>>
  ELSE IF s[1].id = id THEN RemoveId(Tail(s), id)
  ELSE <<s[1]>> \o RemoveId(Tail(s), id)

\* the three assignments of a swap through temp (lines 166-169, App 69-72),
\* 0-based positions inside the array
SwapAt(s, a, b) ==
  [k \in 1..Len(s) |-> IF k = a + 1 THEN s[b + 1] ELSE IF k = b + 1 THEN s[a + 1] ELSE s[k]]

\* copy.splice(at, 0, x): a start beyond the end inserts at the end
InsertAt(s, at, x) ==
  LET p == IF at > Len(s) THEN Len(s) ELSE at
  IN  SubSeq(s, 1, p) \o <<x>> \o SubSeq(s, p + 1, Len(s))

Max(a, b) == IF a >= b THEN a ELSE b

Min(a, b) == IF a <= b THEN a ELSE b

NoExt == [active |-> FALSE]

NoCall == [op |-> "none"]

\* pages[currentPageIndex] is defined
HasCurrentPage(e) == e.currentPageIndex >= 0 /\ e.currentPageIndex < Len(e.pages)

\* const currentPage = pages[currentPageIndex] (line 98)
CurrentPage(e) == e.pages[e.currentPageIndex + 1]

\* the editor as mounted by App in PREVIEW, after the initialising effect
\* of lines 51-60 has run
InitEd ==
  /\ PdfAbsent
  /\ rb = Absent /\ crop = Absent /\ modal = Absent /\ app = Absent
  /\ \E n \in 1..MaxImages :
       LET images == [k \in 1..n |-> ImageFileOf(k)]
       IN  ed = [mounted |-> TRUE, images |-> images, pages |-> InitialPages(images),
                 initialized |-> TRUE, currentPageIndex |-> 0, editingImageId |-> 0,
                 isExtracting |-> FALSE, ext |-> NoExt, fresh |-> 0, last |-> NoCall]

\* the effect of lines 137-141 after a render: onBack() unmounts the editor
AfterRender(e) ==
  IF Len(e.pages) = 0 /\ e.initialized THEN [e EXCEPT !.mounted = FALSE] ELSE e

\* the page list is on screen and no full-screen cropper covers it
EdInteractive == ed.mounted /\ ed.editingImageId = 0

EdStep(e) == ed' = AfterRender(e) /\ UNCHANGED <<pdf, rb, crop, modal, app>>

\* sidebar thumbnail: onClick={() => setCurrentPageIndex(idx)} (line 481)
EdSelect ==
  /\ EdInteractive
  /\ \E idx \in 0..(Len(ed.pages) - 1) :
       EdStep([ed EXCEPT !.currentPageIndex = idx, !.last = NoCall])

\* previous arrow (lines 555-556), disabled at index 0
EdPrev ==
  /\ EdInteractive
  /\ ed.currentPageIndex # 0
  /\ EdStep([ed EXCEPT !.currentPageIndex = Max(0, ed.currentPageIndex - 1),
                       !.last = NoCall])

\* next arrow (lines 563-564), disabled at index pages.length - 1
EdNext ==
  /\ EdInteractive
  /\ ed.currentPageIndex # Len(ed.pages) - 1
  /\ EdStep([ed EXCEPT !.currentPageIndex = Min(Len(ed.pages) - 1, ed.currentPageIndex + 1),
                       !.last = NoCall])

\* Crop button and canvas overlay (lines 319, 602)
EdOpenCropper ==
  /\ EdInteractive
  /\ HasCurrentPage(ed)
  /\ CurrentPage(ed).type = "IMAGE"
  /\ EdStep([ed EXCEPT !.editingImageId = CurrentPage(ed).id, !.last = NoCall])

\* onCancel of the cropper (line 649)
EdCropCancel ==
  /\ ed.mounted /\ ed.editingImageId # 0
  /\ EdStep([ed EXCEPT !.editingImageId = 0, !.last = NoCall])

\* App.handleUpdateImage (App.tsx lines 60-64)
UpdateImage(images, id, newUrl) ==
  [k \in 1..Len(images) |->
     IF images[k].id = id THEN [images[k] EXCEPT !.previewUrl = newUrl] ELSE images[k]]

\* handleSaveCrop (lines 143-148) and the effect of lines 61-70; the cropper
\* saves only an image that loaded
EdCropSave ==
  /\ ed.mounted /\ ed.editingImageId # 0
  /\ \E k \in 1..Len(ed.images) : ed.images[k].id = ed.editingImageId
  /\ LET imgs == UpdateImage(ed.images, ed.editingImageId, <<"crop", ed.editingImageId>>)
     IN  EdStep([ed EXCEPT !.images = imgs, !.editingImageId = 0,
                           !.pages = SyncPages(ed.pages, imgs),
                           !.last = NoCall])

\* a delete that leaves currentPageIndex as it was
DeletePageKeepIndex(e) ==
  IF e.editingImageId # 0
  THEN LET imgs == RemoveId(e.images, e.editingImageId)
       IN  [e EXCEPT !.images = imgs, !.editingImageId = 0,
                     !.pages = SyncPages(e.pages, imgs)]
  ELSE IF HasCurrentPage(e)
  THEN [e EXCEPT !.pages = RemoveAt(e.pages, e.currentPageIndex)]
  ELSE e

\* handleDeletePage (lines 150-161); the first branch ends in
\* App.handleRemoveImage (App.tsx lines 53-58) and the effect of lines 61-70
DeletePage(e) ==
  IF e.editingImageId # 0
  THEN LET imgs == RemoveId(e.images, e.editingImageId)
       IN  [e EXCEPT !.images = imgs, !.editingImageId = 0,
                     !.pages = SyncPages(e.pages, imgs)]
  ELSE IF HasCurrentPage(e)
  THEN LET newPages == RemoveAt(e.pages, e.currentPageIndex)
       IN  [e EXCEPT !.pages = newPages,
                     !.currentPageIndex =
                        IF e.currentPageIndex >= Len(newPages)
                        THEN Max(0, Len(newPages) - 1)
                        ELSE e.currentPageIndex]
  ELSE e

\* the delete button on the current thumbnail (line 524)
EdDelete ==
  /\ EdInteractive
  /\ HasCurrentPage(ed)
  /\ EdStep([DeletePage(ed) EXCEPT !.last = [op |-> "delete", id |-> CurrentPage(ed).id]])

\* onDelete of the cropper (line 651)
EdCropDelete ==
  /\ ed.mounted /\ ed.editingImageId # 0
  /\ EdStep([DeletePage(ed) EXCEPT !.last = [op |-> "cropDelete", id |-> ed.editingImageId]])

\* a move that swaps the pages and leaves the selection index alone
MovePageKeepIndex(e, index, direction) ==
  IF index + direction < 0 \/ index + direction >= Len(e.pages)
  THEN e
  ELSE [e EXCEPT !.pages = SwapAt(e.pages, index, index + direction)]

\* handleMovePage (lines 163-178)
MovePage(e, index, direction) ==
  IF index + direction < 0 \/ index + direction >= Len(e.pages)
  THEN e
  ELSE [e EXCEPT !.pages = SwapAt(e.pages, index, index + direction),
                 !.currentPageIndex =
                    IF e.currentPageIndex = index THEN index + direction
                    ELSE IF e.currentPageIndex = index + direction THEN index
                    ELSE e.currentPageIndex]

\* the arrows on a thumbnail (lines 511, 536)
EdMovePage ==
  /\ EdInteractive
  /\ \E index \in 0..(Len(ed.pages) - 1), direction \in {-1, 1} :
       EdStep([MovePage(ed, index, direction) EXCEPT
                 !.last = [op |-> "movePage", index |-> index, direction |-> direction]])

\* App.handleMoveImage (App.tsx lines 66-75)
MoveImage(images, index, direction) ==
  IF index + direction < 0 \/ index + direction >= Len(images)
  THEN images
  ELSE SwapAt(images, index, index + direction)

\* the onMoveImage prop (line 34) called for an image of the list; the
\* effect of lines 61-70 follows the change of images
EdMoveImage ==
  /\ EdInteractive
  /\ \E index \in 0..(Len(ed.images) - 1), direction \in {-1, 1} :
       LET imgs == MoveImage(ed.images, index, direction)
       IN  EdStep([ed EXCEPT !.images = imgs, !.pages = SyncPages(ed.pages, imgs),
                     !.last = [op |-> "moveImage", index |-> index, direction |-> direction]])

\* handleTextChange (lines 210-222), from onBlur of the text editor
TextChange(e, newHtml) ==
  IF e.currentPageIndex < Len(e.pages)
  THEN [e EXCEPT !.pages[e.currentPageIndex + 1].content = newHtml]
  ELSE e

EdTextChange ==
  /\ EdInteractive
  /\ HasCurrentPage(ed)
  /\ CurrentPage(ed).type = "TEXT"
  /\ EdStep([TextChange(ed, <<"edited">>) EXCEPT !.last = NoCall])

\* handleConfirmExtraction up to the await (lines 180-186): the closure
\* keeps pages, currentPageIndex and currentPage of this render
EdStartExtraction ==
  /\ EdInteractive
  /\ HasCurrentPage(ed) /\ ~ed.isExtracting /\ CurrentPage(ed).type = "IMAGE"
  /\ ed.fresh < MaxExtractions
  /\ EdStep([ed EXCEPT !.isExtracting = TRUE,
                       !.fresh = ed.fresh + 1,
                       !.ext = [active |-> TRUE, pages |-> ed.pages,
                                currentPageIndex |-> ed.currentPageIndex,
                                currentPage |-> CurrentPage(ed)],
                       !.last = NoCall])

\* the new page of lines 188-194
NewTextPage(e) ==
  [id |-> 100 + e.fresh, type |-> "TEXT", content |-> <<"ai", e.ext.currentPage.id>>,
   parentId |-> e.ext.currentPage.id]

\* handleConfirmExtraction after the await resolved (lines 188-200, 206)
ConfirmExtraction(e) ==
  [e EXCEPT !.pages = InsertAt(e.ext.pages, e.ext.currentPageIndex + 1, NewTextPage(e)),
            !.currentPageIndex = e.ext.currentPageIndex + 1,
            !.isExtracting = FALSE, !.ext = NoExt]

EdExtractionResolved ==
  /\ ed.mounted /\ ed.ext.active
  /\ EdStep([ConfirmExtraction(ed) EXCEPT !.last = [op |-> "extracted"]])

\* extractDocumentLayout rejected: catch and finally (lines 202-207)
EdExtractionRejected ==
  /\ ed.mounted /\ ed.ext.active
  /\ EdStep([ed EXCEPT !.isExtracting = FALSE, !.ext = NoExt, !.last = NoCall])

NextEd ==
  \/ EdSelect
  \/ EdPrev
  \/ EdNext
  \/ EdOpenCropper
  \/ EdCropCancel
  \/ EdCropSave
  \/ EdDelete
  \/ EdCropDelete
  \/ EdMovePage
  \/ EdMoveImage
  \/ EdTextChange
  \/ EdStartExtraction
  \/ EdExtractionResolved
  \/ EdExtractionRejected

SpecEd == InitEd /\ [][NextEd]_vars

\* C23: whenever the page list of a mounted editor is non-empty, the
\* current page index is a valid position of it.
C23_IndexInRange ==
  (ed.mounted /\ Len(ed.pages) > 0)
    => ed.currentPageIndex >= 0 /\ ed.currentPageIndex < Len(ed.pages)

\* the last page was deleted while selected, and an extraction completed
C23_Witness ==
  /\ ed.mounted
  /\ ed.last.op = "delete"
  /\ ed.fresh >= 1 /\ ~ed.ext.active
  /\ ed.currentPageIndex = Len(ed.pages) - 1
  /\ Len(ed.pages) >= 2

\* 1-based position in pgs of the page with this id, 0 when there is none
PosOfId(pgs, id) ==
  IF \E k \in 1..Len(pgs) : pgs[k].id = id
  THEN CHOOSE k \in 1..Len(pgs) : pgs[k].id = id /\ \A j \in 1..(k - 1) : pgs[j].id # id
  ELSE 0

\* C24: when an extraction completes, the page list becomes the list as it
\* is at that moment (with the deletions, moves and text changes made since
\* the extraction started) with the new TEXT page inserted directly after
\* its source IMAGE page.
C24_EditsInFlightPreserved ==
  [][(ed'.last.op = "extracted" /\ ed.ext.active /\ ~ed'.ext.active
        /\ PosOfId(ed.pages, ed.ext.currentPage.id) > 0)
       => ed'.pages = InsertAt(ed.pages, PosOfId(ed.pages, ed.ext.currentPage.id),
                               NewTextPage(ed))]_vars

\* C25: after handleDeletePage ran with an image being edited in the
\* cropper, the editor's page list holds no page with that image's id.
C25_CropperDeleteRemovesPage ==
  (ed.last.op = "cropDelete") => PosOfId(ed.pages, ed.last.id) = 0

\* t is s with the entries at 0-based positions a and b exchanged and
\* nothing else changed
IsSwapOf(t, s, a, b) ==
  /\ Len(t) = Len(s)
  /\ t[a + 1] = s[b + 1]
  /\ t[b + 1] = s[a + 1]
  /\ \A k \in 1..Len(s) : (k # a + 1 /\ k # b + 1) => t[k] = s[k]

\* C26: handleMovePage and handleMoveImage exchange exactly the two adjacent
\* entries and leave the length and every other entry as they were; with a
\* target index out of range they change nothing; move(i, +1) followed by
\* move(i + 1, -1) gives back the original order; and after handleMovePage
\* the selection is on the same page as before.
C26_MoveIsAdjacentSwap ==
  /\ [][(ed'.last.op = "movePage" /\ ed'.last # ed.last)
          => LET a == ed'.last.index
                 b == ed'.last.index + ed'.last.direction
             IN  IF b < 0 \/ b >= Len(ed.pages)
                 THEN ed'.pages = ed.pages /\ ed'.currentPageIndex = ed.currentPageIndex
                 ELSE /\ IsSwapOf(ed'.pages, ed.pages, a, b)
                      /\ ed'.pages[ed'.currentPageIndex + 1] = ed.pages[ed.currentPageIndex + 1]]_vars
  /\ [][(ed'.last.op = "moveImage" /\ ed'.last # ed.last)
          => LET a == ed'.last.index
                 b == ed'.last.index + ed'.last.direction
             IN  IF b < 0 \/ b >= Len(ed.images)
                 THEN ed'.images = ed.images
                 ELSE IsSwapOf(ed'.images, ed.images, a, b)]_vars
  /\ [](ed.mounted =>
          /\ \A k \in 0..(Len(ed.pages) - 2) :
               LET back == MovePage(MovePage(ed, k, 1), k + 1, -1)
               IN  back.pages = ed.pages /\ back.currentPageIndex = ed.currentPageIndex
          /\ \A k \in 0..(Len(ed.images) - 2) :
               MoveImage(MoveImage(ed.images, k, 1), k + 1, -1) = ed.images)

\* the selected page was moved down a list of three pages and the
\* selection went with it
C26_Witness ==
  /\ ed.mounted
  /\ Len(ed.pages) = 3
  /\ ed.last = [op |-> "movePage", index |-> 1, direction |-> 1]
  /\ ed.currentPageIndex = 2
  /\ ed.pages[3].id = 1

\* ======================================================== ImageCropper
\* number of mouse-move events handled while a handle is held
MaxMoves == 2

RMax(a, b) == IF RLe(b, a) THEN a ELSE b

RMin(a, b) == IF RLe(a, b) THEN a ELSE b

\* naturalWidth and naturalHeight of the image being cropped
NaturalSizes == {<<100, 100>>, <<400, 300>>}

\* the presets of the AspectRatioBtn row
AspectPresets == {<<16, 9>>, <<1, 1>>, <<9, 16>>}

\* the handles of the crop box, and the box itself ('move')
Handles == {"nw", "n", "ne", "e", "se", "s", "sw", "w", "move"}

\* pointer position in percent of the image rect; the pointer can leave it
RelSamples == {-10, 3, 50, 100, 120}

\* `aspectRatio` null
NoAspect == <<0, 1>>

\* the state after onImageLoad (lines 81-95)
InitCrop ==
  /\ PdfAbsent
  /\ rb = Absent /\ ed = Absent /\ modal = Absent /\ app = Absent
  /\ \E ns \in NaturalSizes :
       crop = [mounted |-> TRUE, naturalSize |-> [w |-> ns[1], h |-> ns[2]],
               crop |-> [x |-> RInt(10), y |-> RInt(10), w |-> RInt(80), h |-> RInt(80)],
               aspectRatio |-> NoAspect, lockAspect |-> FALSE, isDragging |-> "",
               moves |-> 0]

\* handleDragStart (lines 116-120)
CropDragStart ==
  /\ crop.mounted /\ crop.isDragging = ""
  /\ \E type \in Handles : crop' = [crop EXCEPT !.isDragging = type]
  /\ UNCHANGED <<pdf, rb, ed, modal, app>>

\* the mouseup listener (lines 176-180)
CropMouseUp ==
  /\ crop.mounted /\ crop.isDragging # ""
  /\ crop' = [crop EXCEPT !.isDragging = ""]
  /\ UNCHANGED <<pdf, rb, ed, modal, app>>

\* `isDragging.includes(c)` for a handle name
Includes(type, c) ==
  CASE c = "e" -> type \in {"ne", "e", "se"}
    [] c = "s" -> type \in {"se", "s", "sw"}
    [] c = "w" -> type \in {"nw", "w", "sw"}
    [] c = "n" -> type \in {"nw", "n", "ne"}

\* lines 147-148
ResizeE(c, type, relX) ==
  IF Includes(type, "e")
  THEN [c EXCEPT !.w = RMax(RInt(5), RMin(RSub(RInt(100), c.x), RSub(relX, c.x)))]
  ELSE c

ResizeS(c, type, relY) ==
  IF Includes(type, "s")
  THEN [c EXCEPT !.h = RMax(RInt(5), RMin(RSub(RInt(100), c.y), RSub(relY, c.y)))]
  ELSE c

\* lines 149-154
ResizeW(c, type, relX) ==
  IF Includes(type, "w")
  THEN LET right == RAdd(c.x, c.w)
           newX == RMax(RInt(0), RMin(RSub(right, RInt(5)), relX))
       IN  [c EXCEPT !.w = RSub(right, newX), !.x = newX]
  ELSE c

\* lines 155-160
ResizeN(c, type, relY) ==
  IF Includes(type, "n")
  THEN LET bottom == RAdd(c.y, c.h)
           newY == RMax(RInt(0), RMin(RSub(bottom, RInt(5)), relY))
       IN  [c EXCEPT !.h = RSub(bottom, newY), !.y = newY]
  ELSE c

\* lines 139-161
Resize(c, type, relX, relY) ==
  IF type = "move" THEN c
  ELSE ResizeN(ResizeW(ResizeS(ResizeE(c, type, relX), type, relY), type, relX), type, relY)

\* lines 164-170: the height follows the new width at the target ratio
ApplyLock(st, newCrop) ==
  IF st.aspectRatio # NoAspect \/ st.lockAspect
  THEN LET ns == st.naturalSize
           targetRatio == IF st.aspectRatio # NoAspect THEN st.aspectRatio
                          ELSE RDiv(RMul(st.crop.w, RInt(ns.w)), RMul(st.crop.h, RInt(ns.h)))
           currentW_px == RMul(RDiv(newCrop.w, RInt(100)), RInt(ns.w))
           targetH_px == RDiv(currentW_px, targetRatio)
       IN  [newCrop EXCEPT !.h = RMul(RDiv(targetH_px, RInt(ns.h)), RInt(100))]
  ELSE newCrop

\* handleMouseMove (lines 122-173)
CropMouseMove ==
  /\ crop.mounted /\ crop.isDragging # ""
  /\ crop.moves < MaxMoves
  /\ \E rx \in RelSamples, ry \in RelSamples :
       crop' = [crop EXCEPT
                  !.crop = ApplyLock(crop, Resize(crop.crop, crop.isDragging, RInt(rx), RInt(ry))),
                  !.moves = crop.moves + 1]
  /\ UNCHANGED <<pdf, rb, ed, modal, app>>

\* applyAspect (lines 207-231)
AspectCrop(ns, ratio) ==
  LET currentRatio == Rat(ns.w, ns.h)
      newW == IF RLt(currentRatio, ratio) THEN RInt(80)
              ELSE RMul(RDiv(RMul(RMul(Rat(80, 100), RInt(ns.h)), ratio), RInt(ns.w)), RInt(100))
      newH == IF RLt(currentRatio, ratio)
              THEN RMul(RDiv(RDiv(RMul(Rat(80, 100), RInt(ns.w)), ratio), RInt(ns.h)), RInt(100))
              ELSE RInt(80)
  IN  [x |-> RHalf(RSub(RInt(100), newW)), y |-> RHalf(RSub(RInt(100), newH)),
       w |-> newW, h |-> newH]

CropApplyAspect ==
  /\ crop.mounted /\ crop.isDragging = ""
  /\ \E r \in AspectPresets :
       crop' = [crop EXCEPT !.aspectRatio = r, !.lockAspect = TRUE,
                            !.crop = AspectCrop(crop.naturalSize, r)]
  /\ UNCHANGED <<pdf, rb, ed, modal, app>>

\* the Custom button (line 328)
CropCustom ==
  /\ crop.mounted /\ crop.isDragging = ""
  /\ crop' = [crop EXCEPT !.aspectRatio = NoAspect, !.lockAspect = FALSE]
  /\ UNCHANGED <<pdf, rb, ed, modal, app>>

\* the lock checkbox (line 359)
CropSetLock ==
  /\ crop.mounted /\ crop.isDragging = ""
  /\ \E checked \in BOOLEAN : crop' = [crop EXCEPT !.lockAspect = checked]
  /\ UNCHANGED <<pdf, rb, ed, modal, app>>

NextCrop ==
  \/ CropDragStart
  \/ CropMouseUp
  \/ CropMouseMove
  \/ CropApplyAspect
  \/ CropCustom
  \/ CropSetLock

SpecCrop == InitCrop /\ [][NextCrop]_vars

\* C27: the crop rectangle in percent stays inside the image with a
\* minimum size: x >= 0, y >= 0, w >= 5, h >= 5, x + w <= 100, y + h <= 100.
C27_CropInsideImage ==
  crop.mounted =>
    /\ RLe(RInt(0), crop.crop.x)
    /\ RLe(RInt(0), crop.crop.y)
    /\ RLe(RInt(5), crop.crop.w)
    /\ RLe(RInt(5), crop.crop.h)
    /\ RLe(RAdd(crop.crop.x, crop.crop.w), RInt(100))
    /\ RLe(RAdd(crop.crop.y, crop.crop.h), RInt(100))

\* ======================================================== DownloadModal
\* strings are sequences of characters
IsSpace(ch) == ch = " "

\* String.prototype.trim
RECURSIVE TrimLeft(_)
TrimLeft(str) ==
  IF str # <<>> /\ IsSpace(Head(str)) THEN TrimLeft(Tail(str)) ELSE str

RECURSIVE TrimRight(_)
TrimRight(str) ==
  IF str # <<>> /\ IsSpace(str[Len(str)])
  THEN TrimRight(SubSeq(str, 1, Len(str) - 1))
  ELSE str

Trim(str) == TrimRight(TrimLeft(str))

\* a non-empty run of [^\s@]
IsAtomRun(str) ==
  /\ str # <<>>
  /\ \A k \in 1..Len(str) : ~IsSpace(str[k]) /\ str[k] # "@"

\* /^[^\s@]+@[^\s@]+\.[^\s@]+$/.test(str)
EmailPattern(str) ==
  \E a \in 1..Len(str), d \in 1..Len(str) :
    /\ a < d
    /\ str[a] = "@"
    /\ str[d] = "."
    /\ IsAtomRun(SubSeq(str, 1, a - 1))
    /\ IsAtomRun(SubSeq(str, a + 1, d - 1))
    /\ IsAtomRun(SubSeq(str, d + 1, Len(str)))

\* the condition of line 29, negated: `email && pattern.test(email)`
EmailValid(str) == str # <<>> /\ EmailPattern(str)

FileNames == {<<"m", "e", "r", "g", "e", "d">>, <<>>, <<" ", " ">>, <<" ", "a", " ">>}

Emails ==
  {<<>>, <<"a", "@", "b", ".", "c">>, <<"a", "@", "b">>, <<"a", "b", ".", "c">>,
   <<"a", " ", "@", "b", ".", "c">>, <<"a", "@", "b", "@", "c", ".", "d">>,
   <<"a", "@", ".", "c">>, <<"a", "@", "b", ".">>, <<"a", "@", "b", ".", "c", ".", "d">>}

ErrorText == "Please enter a valid email address."

\* useState initial values (lines 12-20); calls, closes and attempts record
\* the calls of generatePDF, of onClose by handleDownload, and the runs of
\* handleDownload that passed the email check
InitModal ==
  /\ PdfAbsent
  /\ rb = Absent /\ ed = Absent /\ crop = Absent /\ app = Absent
  /\ modal = [mounted |-> TRUE, step |-> "CONFIG", fileName |-> <<"m", "e", "r", "g", "e", "d">>,
              format |-> "pdf", includePageNumbers |-> FALSE, enableScanMode |-> FALSE,
              email |-> <<>>, isGenerating |-> FALSE, emailError |-> "",
              gen |-> "none", calls |-> <<>>, closes |-> 0, attempts |-> 0, alerts |-> 0]

ModalOpen == modal.mounted

\* the file name input (line 115)
ModalSetFileName ==
  /\ ModalOpen /\ modal.step = "CONFIG"
  /\ \E f \in FileNames : modal' = [modal EXCEPT !.fileName = f]
  /\ UNCHANGED <<pdf, rb, ed, crop, app>>

\* the two toggles (lines 142, 150)
ModalToggle ==
  /\ ModalOpen /\ modal.step = "CONFIG"
  /\ \/ modal' = [modal EXCEPT !.enableScanMode = ~@]
     \/ modal' = [modal EXCEPT !.includePageNumbers = ~@]
  /\ UNCHANGED <<pdf, rb, ed, crop, app>>

\* a Continue button that does not look at the file name
NextStepUnchecked(m) == [m EXCEPT !.step = "EMAIL"]

\* handleNextStep (lines 22-25)
NextStep(m) == IF Trim(m.fileName) = <<>> THEN m ELSE [m EXCEPT !.step = "EMAIL"]

ModalNextStep ==
  /\ ModalOpen /\ modal.step = "CONFIG"
  /\ modal' = NextStep(modal)
  /\ UNCHANGED <<pdf, rb, ed, crop, app>>

\* the back link of the EMAIL step (line 221)
ModalBack ==
  /\ ModalOpen /\ modal.step = "EMAIL"
  /\ modal' = [modal EXCEPT !.step = "CONFIG"]
  /\ UNCHANGED <<pdf, rb, ed, crop, app>>

\* the email input (lines 171-174)
ModalSetEmail ==
  /\ ModalOpen /\ modal.step = "EMAIL"
  /\ \E e \in Emails : modal' = [modal EXCEPT !.email = e, !.emailError = ""]
  /\ UNCHANGED <<pdf, rb, ed, crop, app>>

\* the close and cancel buttons (lines 100, 216): the parent unmounts the modal
ModalClose ==
  /\ ModalOpen
  /\ modal' = [modal EXCEPT !.mounted = FALSE]
  /\ UNCHANGED <<pdf, rb, ed, crop, app>>

\* the finally block of lines 48-51
Finally(m) == [m EXCEPT !.isGenerating = FALSE, !.closes = @ + 1, !.mounted = FALSE]

\* handleDownload up to its first await or to its end (lines 27-52)
Download(m) ==
  IF ~EmailValid(m.email)
  THEN [m EXCEPT !.emailError = ErrorText]
  ELSE IF m.format = "pdf"
  THEN [m EXCEPT !.isGenerating = TRUE, !.attempts = @ + 1, !.gen = "pending",
                 !.calls = Append(@, [fileName |-> m.fileName, email |-> m.email,
                                      format |-> m.format,
                                      options |-> [includePageNumbers |-> m.includePageNumbers,
                                                   enableScanMode |-> m.enableScanMode]])]
  ELSE Finally([m EXCEPT !.isGenerating = TRUE, !.attempts = @ + 1, !.alerts = @ + 1])

\* the download button (lines 200-201), disabled while generating
ModalDownload ==
  /\ ModalOpen /\ modal.step = "EMAIL" /\ ~modal.isGenerating
  /\ modal' = Download(modal)
  /\ UNCHANGED <<pdf, rb, ed, crop, app>>

\* generatePDF threw: catch and finally (lines 45-51)
GenRejected(m) == Finally([m EXCEPT !.gen = "rejected", !.alerts = @ + 1])

\* generatePDF resolved: finally (lines 48-51)
GenResolved(m) == Finally([m EXCEPT !.gen = "resolved"])

ModalGenResolved ==
  /\ modal.gen = "pending"
  /\ modal' = GenResolved(modal)
  /\ UNCHANGED <<pdf, rb, ed, crop, app>>

ModalGenRejected ==
  /\ modal.gen = "pending"
  /\ modal' = GenRejected(modal)
  /\ UNCHANGED <<pdf, rb, ed, crop, app>>

NextModal ==
  \/ ModalSetFileName
  \/ ModalToggle
  \/ ModalNextStep
  \/ ModalBack
  \/ ModalSetEmail
  \/ ModalClose
  \/ ModalDownload
  \/ ModalGenResolved
  \/ ModalGenRejected

SpecModal == InitModal /\ [][NextModal]_vars

\* C28: generatePDF is called only with a file name that is non-empty after
\* trimming, an email that matches the address pattern and format pdf; a
\* download attempt that passed the email check ends, whether generation
\* resolves or throws, with isGenerating false and exactly one onClose call
\* of the handler, and none before it ends; a rejected email starts no
\* generation and leaves the modal open.
C28_DownloadGuardsAndCleanup ==
  /\ [](/\ \A k \in 1..Len(modal.calls) :
             /\ Trim(modal.calls[k].fileName) # <<>>
             /\ EmailPattern(modal.calls[k].email)
             /\ modal.calls[k].format = "pdf"
        /\ Len(modal.calls) <= modal.attempts
        /\ modal.gen \in {"resolved", "rejected"}
             => ~modal.isGenerating /\ modal.closes = modal.attempts /\ modal.attempts = 1
        /\ modal.gen = "pending" => modal.isGenerating /\ modal.closes = 0
        /\ modal.gen = "none" => modal.closes = 0 /\ modal.attempts = 0 /\ ~modal.isGenerating)
  /\ [][(modal.emailError = "" /\ modal'.emailError # "")
          => /\ ~EmailValid(modal.email)
             /\ modal'.mounted
             /\ modal'.step = "EMAIL"
             /\ modal'.calls = modal.calls
             /\ modal'.gen = modal.gen
             /\ modal'.closes = modal.closes]_vars

\* generation threw after a valid attempt and the handler cleaned up
C28_Witness ==
  /\ modal.gen = "rejected"
  /\ Len(modal.calls) = 1
  /\ ~modal.isGenerating
  /\ modal.closes = 1
  /\ modal.calls[1].fileName = <<" ", "a", " ">>

\* ================================================================= App
\* number of uploads and merges started in one session
MaxOps == 2

\* the argument of handleFilesSelected: null, an empty FileList or a FileList
\* of one file
FileLists ==
  {[isNull |-> TRUE, length |-> 0]} \cup {[isNull |-> FALSE, length |-> n] : n \in {0, 1}}

\* Array.from(fileList).map(file => ({id: generateId(), ...})) (lines 38-44):
\* images with ids not used before
NewImages(nextId, n) == [k \in 1..n |-> ImageFileOf(nextId + k - 1)]

\* useState of lines 14-17. upIntervals and mgIntervals count the intervals
\* of lines 27 and 84 that are not cleared, timeouts holds the pending
\* setTimeout callbacks of lines 46, 94 and 96; ops records, for each upload
\* or merge started, how far its callbacks have run, and last a handler call
\* that returned early.
InitApp ==
  /\ PdfAbsent
  /\ rb = Absent /\ ed = Absent /\ crop = Absent /\ modal = Absent
  /\ app = [mounted |-> TRUE, appState |-> "LANDING", images |-> <<>>,
            status |-> "IDLE", progress |-> 0, upIntervals |-> 0, mgIntervals |-> 0,
            timeouts |-> {}, ops |-> <<>>, nextId |-> 1, last |-> NoCall]

AppStep(a) == app' = a /\ UNCHANGED <<pdf, rb, ed, crop, modal>>

\* handleFilesSelected (lines 20-51)
FilesSelected(a, fileList) ==
  IF fileList.isNull
  THEN [a EXCEPT !.last = [op |-> "filesNull"]]
  ELSE [a EXCEPT !.status = "UPLOADING",
                 !.progress = 0,
                 !.upIntervals = @ + 1,
                 !.timeouts = @ \cup {[kind |-> "upload", op |-> Len(a.ops) + 1]},
                 !.ops = Append(@, [kind |-> "upload", stage |-> "started",
                                    newImages |-> NewImages(a.nextId, fileList.length)]),
                 !.nextId = @ + fileList.length,
                 !.last = NoCall]

\* the file inputs and the drop zone of HeroSection (LANDING) and Workspace
\* (WORKSPACE)
AppFilesSelected ==
  /\ app.mounted
  /\ app.appState \in {"LANDING", "WORKSPACE"}
  /\ \E fileList \in FileLists :
       /\ fileList.isNull \/ Len(app.ops) < MaxOps
       /\ AppStep(FilesSelected(app, fileList))

\* the updater of the upload interval (lines 28-34)
UploadTick(a) ==
  IF a.progress >= 100
  THEN [a EXCEPT !.progress = 100, !.upIntervals = @ - 1, !.last = NoCall]
  ELSE [a EXCEPT !.progress = @ + 10, !.last = NoCall]

\* one tick of an upload interval that is not cleared
AppUploadTick ==
  /\ app.mounted
  /\ app.upIntervals > 0
  /\ AppStep(UploadTick(app))

\* the timeout callback of lines 46-50 for upload t.op
UploadTimeout(a, t) ==
  [a EXCEPT !.images = @ \o a.ops[t.op].newImages,
            !.status = "IDLE",
            !.appState = "WORKSPACE",
            !.timeouts = @ \ {t},
            !.ops[t.op].stage = "done",
            !.last = NoCall]

AppUploadTimeout ==
  /\ app.mounted
  /\ \E t \in app.timeouts :
       /\ t.kind = "upload"
       /\ AppStep(UploadTimeout(app, t))

\* handleRemoveImage (lines 53-58)
AppRemoveImage ==
  /\ app.mounted
  /\ app.appState \in {"WORKSPACE", "PREVIEW"}
  /\ \E k \in 1..Len(app.images) :
       AppStep([app EXCEPT !.images = RemoveId(@, app.images[k].id), !.last = NoCall])

\* handleUpdateImage (lines 60-64), called by the editor with a cropped image
AppUpdateImage ==
  /\ app.mounted
  /\ app.appState = "PREVIEW"
  /\ \E k \in 1..Len(app.images) :
       AppStep([app EXCEPT !.images = UpdateImage(@, app.images[k].id, <<"crop", app.images[k].id>>),
                           !.last = NoCall])

\* onBack (line 140)
AppBack ==
  /\ app.mounted
  /\ app.appState = "PREVIEW"
  /\ AppStep([app EXCEPT !.appState = "WORKSPACE", !.last = NoCall])

\* handleMerge (lines 77-101) up to its return
Merge(a) ==
  IF Len(a.images) = 0
  THEN [a EXCEPT !.last = [op |-> "mergeEmpty"]]
  ELSE [a EXCEPT !.status = "MERGING",
                 !.progress = 0,
                 !.mgIntervals = @ + 1,
                 !.timeouts = @ \cup {[kind |-> "complete", op |-> Len(a.ops) + 1]},
                 !.ops = Append(@, [kind |-> "merge", stage |-> "started", newImages |-> <<>>]),
                 !.last = NoCall]

\* the merge button of Workspace
AppMerge ==
  /\ app.mounted
  /\ app.appState = "WORKSPACE"
  /\ Len(app.images) = 0 \/ Len(app.ops) < MaxOps
  /\ AppStep(Merge(app))

\* the updater of the merge interval (lines 85-91)
MergeTick(a) ==
  IF a.progress >= 100
  THEN [a EXCEPT !.progress = 100, !.mgIntervals = @ - 1, !.last = NoCall]
  ELSE [a EXCEPT !.progress = @ + 2, !.last = NoCall]

AppMergeTick ==
  /\ app.mounted
  /\ app.mgIntervals > 0
  /\ AppStep(MergeTick(app))

\* the outer timeout callback (lines 94-100): COMPLETE, and the inner timeout
\* is scheduled
MergeCompleteStatusOnly(a, t) ==
  [a EXCEPT !.status = "COMPLETE",
            !.timeouts = @ \ {t},
            !.ops[t.op].stage = "complete",
            !.last = NoCall]

MergeComplete(a, t) ==
  [a EXCEPT !.status = "COMPLETE",
            !.timeouts = (@ \ {t}) \cup {[kind |-> "idle", op |-> t.op]},
            !.ops[t.op].stage = "complete",
            !.last = NoCall]

AppMergeComplete ==
  /\ app.mounted
  /\ \E t \in app.timeouts :
       /\ t.kind = "complete"
       /\ AppStep(MergeComplete(app, t))

\* the inner timeout callback (lines 96-99)
MergeIdle(a, t) ==
  [a EXCEPT !.status = "IDLE",
            !.appState = "PREVIEW",
            !.timeouts = @ \ {t},
            !.ops[t.op].stage = "done",
            !.last = NoCall]

AppMergeIdle ==
  /\ app.mounted
  /\ \E t \in app.timeouts :
       /\ t.kind = "idle"
       /\ AppStep(MergeIdle(app, t))

\* resetApp (lines 103-114) when there is nothing to lose or the user
\* confirms; the timers that are running are not cleared
AppReset ==
  /\ app.mounted
  /\ AppStep([app EXCEPT !.appState = "LANDING", !.images = <<>>, !.status = "IDLE",
                         !.progress = 0, !.last = NoCall])

NextApp ==
  \/ AppFilesSelected
  \/ AppUploadTick
  \/ AppUploadTimeout
  \/ AppRemoveImage
  \/ AppUpdateImage
  \/ AppBack
  \/ AppMerge
  \/ AppMergeTick
  \/ AppMergeComplete
  \/ AppMergeIdle
  \/ AppReset

SpecApp == InitApp /\ [][NextApp]_vars

\* the event loop runs every timer callback that is due
AppFairness ==
  /\ WF_vars(AppUploadTick)
  /\ WF_vars(AppUploadTimeout)
  /\ WF_vars(AppMergeTick)
  /\ WF_vars(AppMergeComplete)
  /\ WF_vars(AppMergeIdle)

SpecAppLive == InitApp /\ [][NextApp]_vars /\ AppFairness

\* C29: the simulated progress stays within 0..100 in every reachable state,
\* whatever the interleaving of upload and merge ticks: it never exceeds 100.
C29_ProgressWithinRange == app.progress >= 0 /\ app.progress <= 100

\* how far the callbacks of the k-th upload or merge have run
OpStage(a, k) == IF k <= Len(a.ops) THEN a.ops[k].stage ELSE "none"

\* C30: every upload or merge eventually completes. An upload (a non-null
\* file list) sets UPLOADING, and its timeout later sets IDLE and WORKSPACE
\* and appends the new images; a merge starts only with at least one image,
\* sets MERGING, then COMPLETE, then IDLE with PREVIEW, in that order; a
\* merge with no images changes nothing.
C30_UploadAndMergeComplete ==
  /\ \A k \in 1..MaxOps : (OpStage(app, k) = "started") ~> (OpStage(app, k) = "done")
  /\ [][/\ \A k \in 1..MaxOps :
            OpStage(app, k) # OpStage(app', k) =>
              LET op == app'.ops[k]
                  from == OpStage(app, k)
              IN  \/ /\ from = "none" /\ op.stage = "started" /\ op.kind = "upload"
                     /\ app'.status = "UPLOADING"
                  \/ /\ from = "started" /\ op.stage = "done" /\ op.kind = "upload"
                     /\ app'.status = "IDLE"
                     /\ app'.appState = "WORKSPACE"
                     /\ app'.images = app.images \o op.newImages
                  \/ /\ from = "none" /\ op.stage = "started" /\ op.kind = "merge"
                     /\ Len(app.images) >= 1
                     /\ app'.status = "MERGING"
                  \/ /\ from = "started" /\ op.stage = "complete" /\ op.kind = "merge"
                     /\ app'.status = "COMPLETE"
                  \/ /\ from = "complete" /\ op.stage = "done" /\ op.kind = "merge"
                     /\ app'.status = "IDLE"
                     /\ app'.appState = "PREVIEW"
        /\ (app'.last.op = "mergeEmpty" /\ app.last.op # "mergeEmpty")
             => /\ Len(app.images) = 0
                /\ app' = [app EXCEPT !.last = app'.last]]_vars

\* an upload and then a merge ran to their ends
C30_Witness ==
  /\ Len(app.ops) = 2
  /\ app.ops[1].kind = "upload" /\ app.ops[1].stage = "done"
  /\ app.ops[2].kind = "merge" /\ app.ops[2].stage = "done"
  /\ app.appState = "PREVIEW"
  /\ app.status = "IDLE"
  /\ Len(app.images) = 1

====
